---- MODULE Spec2Model ----
(***************************************************************************)
(* A model of routes/index.js of nostal-music: the track resolution        *)
(* functions removeDuplicateTracks and removeAlternateVersions, the        *)
(* paginated release fetcher fetchAllAlbums, the track loader              *)
(* getAllTrackData, and the route /create-playlist/:artistId that runs     *)
(* them and fills the playlist.                                            *)
(*                                                                         *)
(* A JavaScript Map is modelled as the sequence of its entries in          *)
(* insertion order, a string as the sequence of its characters, and the    *)
(* value undefined as the one-element sequence <<"undefined">>.            *)
(***************************************************************************)
EXTENDS Integers, Sequences, FiniteSets, TLC

\* ------------------------------------------------------------------ bounds

\* The longest track list handed to removeDuplicateTracks.
MaxTracks == 3

\* The longest track list handed to removeAlternateVersions.
MaxTitles == 3

\* The most full pages a release category of the modelled catalog fills.
MaxFullPages == 1

\* ------------------------------------------------------------- track records

\* track.isrc of a record that enrichment left without an identifier.
NoIsrc == <<"undefined">>

\* The k-th recording identifier of the modelled catalog.
Isrc(k) == <<"ISRC", k>>

\* The identifiers of the track lists handed to removeDuplicateTracks.
Isrcs == {Isrc(1), Isrc(2)}

\* album.album_type as the catalog service reports it.
AlbumTypes == {"album", "single", "compilation"}

\* ------------------------------------------------------------------- state

VARIABLES
    fn,            \* the function the model is executing
    pc,            \* the position inside it
    tracks,        \* the argument of the running function
    i,             \* the index of the forEach callback about to run (1-based)
    uniqueTracks,  \* the Map of the running function
    result,        \* the array the function returned
    pass,          \* 1 for the call on the input, 2 for the call on its own output
    first,         \* the array the first call returned, once the second has begun
    catalog,       \* the catalog service: the number of releases of each category
    group,         \* fetchAllAlbums: the place in the category order (lines 139-145)
    offset,        \* fetchAllAlbums: let offset
    allAlbums,     \* fetchAllAlbums: const allAlbums
    calls,         \* the requests issued, the answers received and the delays
                   \* elapsed, in order
    handler,       \* "route" while the create-playlist route runs, else "none"
    service,       \* the catalog service: tracks per release, and whether some
                   \* tracks have no track detail
    hasToken,      \* spotifyApi.getAccessToken() is set
    artistName,    \* route: const artistName
    albumData,     \* route: const albumData
    albumIndex,    \* getAllTrackData: i of the release batch loop (0-based)
    loaded,        \* getAllTrackData: let tracks
    trackIds,      \* getAllTrackData: let trackIds
    trackIndex,    \* getAllTrackData: i of the track batch loop (0-based)
    trackData,     \* getAllTrackData: const trackData
    trackUris,     \* route: const trackUris
    chunkIndex,    \* route: i of the chunk loop (0-based)
    playlist,      \* the service's playlist: the chunks inserted, in order
    created,       \* the service has created the playlist
    followed,      \* the service has recorded the follow
    responses      \* what the route has sent to the caller, in order

resolverVars == <<tracks, i, uniqueTracks, result, pass, first>>

fetchVars == <<catalog, group, offset, allAlbums, calls>>

loadVars == <<artistName, albumData, albumIndex, loaded, trackIds, trackIndex,
              trackData>>

routeVars == <<handler, service, hasToken, loadVars, trackUris, chunkIndex, playlist,
               created, followed, responses>>

vars == <<fn, pc, resolverVars, fetchVars, routeVars>>

\* The include_groups of the four fetchAlbums calls, in order (lines 139-145).
includeGroups == <<"album", "single", "compilation", "appears_on">>

\* The create-playlist route is not running.
RouteIdle ==
    /\ handler = "none"
    /\ service = [tracksPerAlbum |-> 0, gaps |-> FALSE]
    /\ hasToken = FALSE
    /\ artistName = ""
    /\ albumData = <<>>
    /\ albumIndex = 0
    /\ loaded = <<>>
    /\ trackIds = <<>>
    /\ trackIndex = 0
    /\ trackData = <<>>
    /\ trackUris = <<>>
    /\ chunkIndex = 0
    /\ playlist = <<>>
    /\ created = FALSE
    /\ followed = FALSE
    /\ responses = <<>>

\* fetchAllAlbums is not running.
FetchIdle ==
    /\ catalog = [g \in 1..Len(includeGroups) |-> 0]
    /\ group = 1
    /\ offset = 0
    /\ allAlbums = <<>>
    /\ calls = <<>>

\* ------------------------------------------------------------- the Map type

\* Map.prototype.has
MapHas(m, key) == \E k \in 1..Len(m) : m[k].key = key

\* Map.prototype.get, of a key the map has
MapGet(m, key) == m[CHOOSE k \in 1..Len(m) : m[k].key = key].val

\* Map.prototype.delete: the entry leaves the insertion order.
MapDelete(m, key) == SelectSeq(m, LAMBDA e : e.key # key)

\* Map.prototype.set with a new key put first in the iteration order.
MapSetFront(m, key, val) ==
    IF MapHas(m, key)
    THEN [k \in 1..Len(m) |-> IF m[k].key = key THEN [key |-> key, val |-> val] ELSE m[k]]
    ELSE <<[key |-> key, val |-> val]>> \o m

\* Map.prototype.set: a new key is appended to the insertion order, a key the
\* map has keeps its place and takes the new value.
MapSet(m, key, val) ==
    IF MapHas(m, key)
    THEN [k \in 1..Len(m) |-> IF m[k].key = key THEN [key |-> key, val |-> val] ELSE m[k]]
    ELSE Append(m, [key |-> key, val |-> val])

\* Array.from(map.values())
MapValues(m) == [k \in 1..Len(m) |-> m[k].val]

\* ---------------------------------------------------- removeDuplicateTracks

\* Replaces with the non-external album branch taken only against an external
\* selection.
ReplacesAlbumOverExternalOnly(track, previousTrack) ==
    IF track.external /\ previousTrack.external
    THEN \/ track.album_type = "single" /\ previousTrack.album_type # "album"
         \/ track.album_type = "album"
    ELSE IF ~track.external
    THEN \/ /\ track.album_type = "single"
            /\ IF previousTrack.external
               THEN previousTrack.album_type \in {"single", "album", "compilation"}
               ELSE previousTrack.album_type \in {"single", "compilation"}
         \/ track.album_type = "album" /\ previousTrack.external
         \/ /\ track.album_type = "compilation"
            /\ previousTrack.album_type = "compilation"
    ELSE FALSE

\* Replaces with the non-external single branch missing its external case.
ReplacesSingleNotOverExternal(track, previousTrack) ==
    IF track.external /\ previousTrack.external
    THEN \/ track.album_type = "single" /\ previousTrack.album_type # "album"
         \/ track.album_type = "album"
    ELSE IF ~track.external
    THEN \/ /\ track.album_type = "single"
            /\ ~previousTrack.external
            /\ previousTrack.album_type \in {"single", "compilation"}
         \/ track.album_type = "album"
         \/ /\ track.album_type = "compilation"
            /\ previousTrack.album_type = "compilation"
    ELSE FALSE

\* Replaces with the non-external compilation branch missing.
ReplacesCompilationNever(track, previousTrack) ==
    IF track.external /\ previousTrack.external
    THEN \/ track.album_type = "single" /\ previousTrack.album_type # "album"
         \/ track.album_type = "album"
    ELSE IF ~track.external
    THEN \/ /\ track.album_type = "single"
            /\ IF previousTrack.external
               THEN previousTrack.album_type \in {"single", "album", "compilation"}
               ELSE previousTrack.album_type \in {"single", "compilation"}
         \/ track.album_type = "album"
    ELSE FALSE

\* Replaces with the first branch taken by every external incoming track.
ReplacesExternalOverAny(track, previousTrack) ==
    IF track.external
    THEN \/ track.album_type = "single" /\ previousTrack.album_type # "album"
         \/ track.album_type = "album"
    ELSE \/ /\ track.album_type = "single"
            /\ IF previousTrack.external
               THEN previousTrack.album_type \in {"single", "album", "compilation"}
               ELSE previousTrack.album_type \in {"single", "compilation"}
         \/ track.album_type = "album"
         \/ /\ track.album_type = "compilation"
            /\ previousTrack.album_type = "compilation"

\* Replaces with the non-external single branch taken against every selection.
ReplacesSingleOverAlbum(track, previousTrack) ==
    IF track.external /\ previousTrack.external
    THEN \/ track.album_type = "single" /\ previousTrack.album_type # "album"
         \/ track.album_type = "album"
    ELSE IF ~track.external
    THEN \/ track.album_type = "single"
         \/ track.album_type = "album"
         \/ /\ track.album_type = "compilation"
            /\ previousTrack.album_type = "compilation"
    ELSE FALSE

\* The branches of lines 228-268: whether the incoming track takes the place
\* of the selection of its key.
Replaces(track, previousTrack) ==
    IF track.external /\ previousTrack.external
    THEN \/ track.album_type = "single" /\ previousTrack.album_type # "album"
         \/ track.album_type = "album"
    ELSE IF ~track.external
    THEN \/ /\ track.album_type = "single"
            /\ IF previousTrack.external
               THEN previousTrack.album_type \in {"single", "album", "compilation"}
               ELSE previousTrack.album_type \in {"single", "compilation"}
         \/ track.album_type = "album"
         \/ /\ track.album_type = "compilation"
            /\ previousTrack.album_type = "compilation"
    ELSE FALSE

\* Reinsert without the set: the key is deleted and never put back.
ReinsertDeleteOnly(m, key, track) == MapDelete(m, key)

\* Reinsert without the delete: the key keeps its place in the map.
ReinsertInPlace(m, key, track) == MapSet(m, key, track)

\* uniqueTracks.delete(key); uniqueTracks.set(key, track)
Reinsert(m, key, track) == MapSet(MapDelete(m, key), key, track)

\* One call of the forEach callback of removeDuplicateTracks.
DedupCallback(m, track) ==
    LET key == track.isrc IN
    IF ~MapHas(m, key)
    THEN MapSet(m, key, track)
    ELSE IF Replaces(track, MapGet(m, key))
         THEN Reinsert(m, key, track)
         ELSE m

\* What the resolver reads of a track record.
TrackShapes == [isrc : Isrcs \cup {NoIsrc}, album_type : AlbumTypes, external : BOOLEAN]

\* The track list of the given shapes: every record has its own track id (its
\* place in the list).
WithIds(ts) == [k \in 1..Len(ts) |->
                  [id |-> k, title |-> <<"S","o","n","g">>, isrc |-> ts[k].isrc,
                   album_type |-> ts[k].album_type, external |-> ts[k].external]]

\* removeDuplicateTracks is called with a track list.
Init ==
    /\ fn = "removeDuplicateTracks"
    /\ pc = "forEach"
    /\ \E n \in 1..MaxTracks : \E ts \in [1..n -> TrackShapes] : tracks = WithIds(ts)
    /\ i = 1
    /\ uniqueTracks = <<>>
    /\ result = <<>>
    /\ pass = 1
    /\ first = <<>>
    /\ FetchIdle
    /\ RouteIdle

DedupStep ==
    /\ fn = "removeDuplicateTracks"
    /\ pc = "forEach"
    /\ i <= Len(tracks)
    /\ uniqueTracks' = DedupCallback(uniqueTracks, tracks[i])
    /\ i' = i + 1
    /\ UNCHANGED <<fn, pc, tracks, result, pass, first, fetchVars, routeVars>>

DedupReturn ==
    /\ fn = "removeDuplicateTracks"
    /\ pc = "forEach"
    /\ i > Len(tracks)
    /\ result' = MapValues(uniqueTracks)
    /\ pc' = "returned"
    /\ UNCHANGED <<fn, tracks, i, uniqueTracks, pass, first, fetchVars, routeVars>>

\* ------------------------------------------------------------------ strings

UpperCase == <<"A","B","C","D","E","F","G","H","I","J","K","L","M",
               "N","O","P","Q","R","S","T","U","V","W","X","Y","Z">>

LowerCase == <<"a","b","c","d","e","f","g","h","i","j","k","l","m",
               "n","o","p","q","r","s","t","u","v","w","x","y","z">>

Min(a, b) == IF a <= b THEN a ELSE b

\* The lower-case letter of every upper-case letter.
LowerOf ==
    [c \in { UpperCase[u] : u \in 1..Len(UpperCase) } |->
        LowerCase[CHOOSE u \in 1..Len(UpperCase) : UpperCase[u] = c]]

\* String.prototype.toLowerCase
ToLowerCase(s) ==
    [k \in 1..Len(s) |-> IF s[k] \in DOMAIN LowerOf THEN LowerOf[s[k]] ELSE s[k]]

\* String.prototype.includes
Includes(s, sub) ==
    \E k \in 0..(Len(s) - Len(sub)) : SubSeq(s, k + 1, k + Len(sub)) = sub

\* String.prototype.indexOf of one character: 0-based, -1 when absent.
IndexOf(s, c) ==
    IF \E k \in 1..Len(s) : s[k] = c
    THEN (CHOOSE k \in 1..Len(s) : s[k] = c /\ \A j \in 1..(k - 1) : s[j] # c) - 1
    ELSE -1

\* String.prototype.substring(from, to), 0-based, 0 <= from and to <= length.
Substring(s, from, to) == SubSeq(s, from + 1, to)

\* String.prototype.trim
Trim(s) ==
    LET solid == { k \in 1..Len(s) : s[k] # " " } IN
    IF solid = {} THEN <<>>
    ELSE SubSeq(s, CHOOSE k \in solid : \A j \in solid : k <= j,
                   CHOOSE k \in solid : \A j \in solid : j <= k)

\* -------------------------------------------------- removeAlternateVersions

keywords == <<
    <<"v","e","r","s","i","o","n">>,
    <<"l","i","v","e">>,
    <<"r","e","m","i","x">>,
    <<"e","d","i","t">>,
    <<"a","c","o","u","s","t","i","c">>,
    <<"s","t","r","i","p","p","e","d">>,
    <<"s","e","s","s","i","o","n">>,
    <<"s","e","s","s","i","o","n","s">>,
    <<"d","e","m","o">>,
    <<"a","c","a","p","e","l","l","a">>,
    <<"a"," ","c","a","p","p","e","l","l","a">>,
    <<"m","e","m","o">>,
    <<"t","r","a","c","k"," ","b","y"," ","t","r","a","c","k">>,
    <<"m","i","x">>,
    <<"r","e","c","o","r","d","e","d"," ","a","t">>,
    <<"i","n","s","t","r","u","m","e","n","t","a","l">>,
    <<"o","r","c","h","e","s","t","r","a","l">>,
    <<"s","p","o","t","i","f","y"," ","s","i","n","g","l","e","s">>,
    <<"c","o","m","m","e","n","t","a","r","y">>,
    <<"e","x","t","e","n","d","e","d">>,
    <<"s","p","e","d"," ","u","p">>,
    <<"s","l","o","w","e","d">>,
    <<"v","o","i","c","e","n","o","t","e">>,
    <<"c","l","u","b">>,
    <<"d","u","b">>,
    <<"r","a","d","i","o">>,
    <<"f","i","x">>
>>

exceptions == << <<"t","a","y","l","o","r">> >>

\* Line 279: the title has a delimiter.
HasDelimiter(title) == Includes(title, <<"-">>) \/ Includes(title, <<"(">>)

\* SeparatorIndex with Math.max for Math.min.
SeparatorIndexLatest(title) ==
    IF Includes(title, <<"-">>) /\ Includes(title, <<"(">>)
    THEN IF IndexOf(title, "-") >= IndexOf(title, "(")
         THEN IndexOf(title, "-") ELSE IndexOf(title, "(")
    ELSE IF Includes(title, <<"-">>)
         THEN IndexOf(title, "-")
         ELSE IndexOf(title, "(")

\* Lines 314-321, of the lower-cased title of a track that has a delimiter.
SeparatorIndex(title) ==
    IF Includes(title, <<"-">>) /\ Includes(title, <<"(">>)
    THEN Min(IndexOf(title, "-"), IndexOf(title, "("))
    ELSE IF Includes(title, <<"-">>)
         THEN IndexOf(title, "-")
         ELSE IndexOf(title, "(")

\* Line 323
TitleBeforeSeparator(title) == Trim(Substring(title, 0, SeparatorIndex(title)))

\* Line 324
TitleAfterSeparator(title) ==
    Trim(Substring(title, SeparatorIndex(title) + 1, Len(title)))

\* Lines 326-328
HasKeyword(titleAfterSeparator) ==
    \E k \in 1..Len(keywords) : Includes(titleAfterSeparator, keywords[k])

\* HasException with an empty exception list.
HasExceptionNever(titleAfterSeparator) == FALSE

\* Lines 329-331
HasException(titleAfterSeparator) ==
    \E k \in 1..Len(exceptions) : Includes(titleAfterSeparator, exceptions[k])

\* Lines 334-336: tracks.find(...) found a track.
MatchingTrack(ts, titleBeforeSeparator) ==
    \E k \in 1..Len(ts) : ToLowerCase(ts[k].title) = titleBeforeSeparator

\* One call of the forEach callback of removeAlternateVersions.
FilterCallback(m, ts, track) ==
    IF HasDelimiter(track.title)
    THEN LET title == ToLowerCase(track.title) IN
         IF HasKeyword(TitleAfterSeparator(title))
            /\ ~HasException(TitleAfterSeparator(title))
         THEN IF ~MatchingTrack(ts, TitleBeforeSeparator(title))
              THEN MapSet(m, track.isrc, track)
              ELSE m
         ELSE MapSet(m, track.isrc, track)
    ELSE MapSet(m, track.isrc, track)

\* The titles of the modelled catalog.
TitlePool == {
    <<"S","o","n","g">>,
    <<"R","e">>,
    <<"S","o","n","g"," ","(","A","c","o","u","s","t","i","c",")">>,
    <<"S","O","N","G"," ","-"," ","L","i","v","e">>,
    <<"S","o","n","g"," ","(","T","a","y","l","o","r","'","s"," ","V","e","r","s","i","o","n",")">>,
    <<"S","o","n","g"," ","(","f","e","a","t","."," ","G","u","e","s","t",")">>,
    <<"O","t","h","e","r"," ","(","D","e","m","o",")">>,
    <<"R","e","-","M","i","x"," ","(","L","i","v","e",")">>
}

\* The k-th record of a list removeAlternateVersions is called with. The list
\* is an output of removeDuplicateTracks (lines 68-70), so no two of its
\* records share a key: the k-th has the k-th identifier, or none when it is
\* the one record enrichment left without (noIsrcAt).
FilterTrack(k, title, noIsrcAt) ==
    [id |-> k, title |-> title, isrc |-> IF k = noIsrcAt THEN NoIsrc ELSE Isrc(k),
     album_type |-> "album", external |-> FALSE]

\* removeAlternateVersions is called with a track list.
InitFilter ==
    /\ fn = "removeAlternateVersions"
    /\ pc = "forEach"
    /\ \E n \in 1..MaxTitles : \E titles \in [1..n -> TitlePool] : \E noIsrcAt \in 0..n :
          tracks = [k \in 1..n |-> FilterTrack(k, titles[k], noIsrcAt)]
    /\ i = 1
    /\ uniqueTracks = <<>>
    /\ result = <<>>
    /\ pass = 1
    /\ first = <<>>
    /\ FetchIdle
    /\ RouteIdle

FilterStep ==
    /\ fn = "removeAlternateVersions"
    /\ pc = "forEach"
    /\ i <= Len(tracks)
    /\ uniqueTracks' = FilterCallback(uniqueTracks, tracks, tracks[i])
    /\ i' = i + 1
    /\ UNCHANGED <<fn, pc, tracks, result, pass, first, fetchVars, routeVars>>

FilterReturn ==
    /\ fn = "removeAlternateVersions"
    /\ pc = "forEach"
    /\ i > Len(tracks)
    /\ result' = MapValues(uniqueTracks)
    /\ pc' = "returned"
    /\ UNCHANGED <<fn, tracks, i, uniqueTracks, pass, first, fetchVars, routeVars>>

\* removeAlternateVersions called on the array it returned.
FilterAgain ==
    /\ fn = "removeAlternateVersions"
    /\ pc = "returned"
    /\ pass = 1
    /\ first' = result
    /\ tracks' = result
    /\ pass' = 2
    /\ i' = 1
    /\ uniqueTracks' = <<>>
    /\ result' = <<>>
    /\ pc' = "forEach"
    /\ UNCHANGED <<fn, fetchVars, routeVars>>

\* ----------------------------------------------------------- fetchAllAlbums

\* Line 115
limit == 49

\* The sizes a release category of the modelled catalog has: up to
\* MaxFullPages full pages, and no or one release more.
CatalogSizes == { p * limit + r : p \in 0..MaxFullPages, r \in {0, 1} }

\* The page requests of one run never exceed this: each category takes its
\* full pages, one more page and the empty one.
MaxRequests == Len(includeGroups) * (MaxFullPages + 2)

\* The catalog service's answer to getArtistAlbums: the releases of the
\* category from the offset on, limit at most. The id of a release is its
\* category and its place in it.
Page(size, includeGroup, from, max) ==
    [k \in 1..(IF from >= size THEN 0 ELSE Min(max, size - from)) |->
        [album_group |-> includeGroup, id |-> <<includeGroup, from + k>>]]

\* Lines 125-127: the page ends the loop of its category.
IsLastPage(items) == Len(items) = 0

\* ResetOffset that leaves the offset where the last category ended.
ResetOffsetKept(o) == o

\* Lines 140, 142, 144: offset = 0 between two fetchAlbums calls.
ResetOffset(o) == 0

\* NextOffset that skips one release more than the page held.
NextOffsetSkip(o) == o + limit + 1

\* NextOffset that leaves the offset where it is.
NextOffsetStuck(o) == o

\* Line 133
NextOffset(o) == o + limit

\* Lines 119-123: the request of the page at the offset is issued.
FetchRequest ==
    /\ fn = "fetchAllAlbums"
    /\ pc = "request"
    /\ Len(SelectSeq(calls, LAMBDA c : c.kind = "request")) < MaxRequests
    /\ calls' = Append(calls, [kind |-> "request", include_groups |-> includeGroups[group],
                               limit |-> limit, offset |-> offset])
    /\ pc' = "await"
    /\ UNCHANGED <<fn, resolverVars, catalog, group, offset, allAlbums, routeVars>>

\* Lines 119-136 and 139-147: the page arrives. An empty page ends the
\* category: the next one starts at offset 0, and after the last one the
\* function returns. Another page is appended, the offset advances and the
\* delay starts.
FetchResponse ==
    /\ fn = "fetchAllAlbums"
    /\ pc = "await"
    /\ LET items == Page(catalog[group], includeGroups[group], offset, limit) IN
       /\ calls' = Append(calls, [kind |-> "page", include_groups |-> includeGroups[group],
                                  items |-> Len(items)])
       /\ IF IsLastPage(items)
          THEN /\ IF group < Len(includeGroups)
                  THEN group' = group + 1 /\ offset' = ResetOffset(offset) /\ pc' = "request"
                  ELSE pc' = "returned" /\ UNCHANGED <<group, offset>>
               /\ UNCHANGED allAlbums
          ELSE /\ allAlbums' = allAlbums \o items
               /\ offset' = NextOffset(offset)
               /\ pc' = "delay"
               /\ UNCHANGED group
    /\ UNCHANGED <<fn, resolverVars, catalog, routeVars>>

\* Line 119: the request fails, the await throws and fetchAllAlbums rejects
\* (the route's catch at lines 106-109 answers 400).
FetchReject ==
    /\ fn = "fetchAllAlbums"
    /\ pc = "await"
    /\ calls' = Append(calls, [kind |-> "failure"])
    /\ pc' = "failed"
    /\ UNCHANGED <<fn, resolverVars, catalog, group, offset, allAlbums, routeVars>>

\* Line 135: the timer of the delay fires.
FetchDelay ==
    /\ fn = "fetchAllAlbums"
    /\ pc = "delay"
    /\ calls' = Append(calls, [kind |-> "delay"])
    /\ pc' = "request"
    /\ UNCHANGED <<fn, resolverVars, catalog, group, offset, allAlbums, routeVars>>

\* fetchAllAlbums is called, against a catalog.
InitFetch ==
    /\ fn = "fetchAllAlbums"
    /\ pc = "request"
    /\ catalog \in [1..Len(includeGroups) -> CatalogSizes]
    /\ group = 1
    /\ offset = 0
    /\ allAlbums = <<>>
    /\ calls = <<>>
    /\ tracks = <<>>
    /\ i = 1
    /\ uniqueTracks = <<>>
    /\ result = <<>>
    /\ pass = 1
    /\ first = <<>>
    /\ RouteIdle

\* ------------------------------------------------------- the catalog service

\* The numbers of tracks a release of the modelled catalog has.
TracksPerAlbum == {1, 2, 5}

\* The sizes of the single, compilation and appears_on categories when the
\* whole route runs.
SmallSizes == {0, 1}

\* The track record has no isrc or popularity property (before line 209).
NoPopularity == <<"undefined">>

\* Line 56: album.artists of a release of a page, as names. A release of the
\* appears_on category is another artist's.
Artists(album) ==
    IF album.album_group = "appears_on" THEN <<"Other">> ELSE <<"Artist">>

\* Line 59: new Date(album.release_date), in days. The k-th releases of the
\* categories came out on the same day.
ReleaseDate(album) == album.id[2]

\* Lines 58-60: the place the sort gives a release among the releases before
\* it that are sorted already: behind those of its date and of earlier dates.
SortInsert(sorted, album) ==
    SelectSeq(sorted, LAMBDA a : ReleaseDate(a) <= ReleaseDate(album))
    \o <<album>>
    \o SelectSeq(sorted, LAMBDA a : ReleaseDate(a) > ReleaseDate(album))

RECURSIVE SortFold(_, _, _, _)
\* The releases from..to of the list, put into the sorted ones one by one
\* (the length test has the first half computed before the second).
SortFold(sorted, albums, from, to) ==
    IF from > to THEN sorted
    ELSE IF from = to THEN SortInsert(sorted, albums[from])
    ELSE LET mid == (from + to) \div 2
             half == SortFold(sorted, albums, from, mid)
         IN IF Len(half) >= 0 THEN SortFold(half, albums, mid + 1, to) ELSE half

\* Lines 58-60: Array.prototype.sort with the release date comparator; the
\* sort is stable.
SortByReleaseDate(albums) == SortFold(<<>>, albums, 1, Len(albums))

\* Lines 177-188: the j-th track of a release, as getAlbums returns it. On
\* another artist's release the first track credits the owner too, the
\* others do not. The first track of a compilation is an acoustic version.
AlbumTrack(albumId, j) ==
    [id |-> <<albumId[1], albumId[2], j>>,
     name |-> IF albumId[1] = "compilation" /\ j = 1
              THEN <<"S","o","n","g"," ","(","A","c","o","u","s","t","i","c",")">>
              ELSE <<"S","o","n","g">>,
     uri |-> <<"spotify:track", albumId[1], albumId[2], j>>,
     artists |-> IF albumId[1] # "appears_on" THEN <<"Artist">>
                 ELSE IF j = 1 THEN <<"Other", "Artist">> ELSE <<"Other">>,
     duration_ms |-> 1000 * j]

\* Lines 156-157: a release as getAlbums returns it. Another artist's release
\* is an album.
AlbumDetails(albumId) ==
    [id |-> albumId,
     album_type |-> IF albumId[1] = "appears_on" THEN "album" ELSE albumId[1],
     tracks |-> [j \in 1..service.tracksPerAlbum |-> AlbumTrack(albumId, j)]]

\* Lines 161-162: the service has detail of the track. When the service has
\* gaps, the first track of the first release of each category has none.
HasDetail(trackId) == ~(service.gaps /\ trackId[2] = 1 /\ trackId[3] = 1)

\* Lines 161-162, 209-210: a track as getTracks returns it. The k-th single
\* holds the recordings of the k-th album.
TrackDetails(trackId) ==
    [id |-> trackId,
     external_ids |-> [isrc |-> <<"ISRC", IF trackId[1] = "single" THEN "album" ELSE trackId[1],
                                  trackId[2], trackId[3]>>],
     popularity |-> 10 * trackId[3]]

\* ----------------------------------------------------------- getAllTrackData

\* Line 151
batchSize == 20

\* Line 152
trackBatchSize == 50

\* Array.prototype.slice(from, to) of lines 171, 200 and 87.
Slice(s, from, to) == SubSeq(s, from + 1, Min(to, Len(s)))

\* Lines 178-180: some artist of the track has the name.
CreditedTo(track, name) == \E k \in 1..Len(track.artists) : track.artists[k] = name

\* Lines 176-189: the track records of one release of the getAlbums answer.
AlbumTracks(album) ==
    LET albumDataEntry ==
            albumData[CHOOSE k \in 1..Len(albumData) :
                          /\ albumData[k].id = album.id
                          /\ \A j \in 1..(k - 1) : albumData[j].id # album.id]
        items == SelectSeq(album.tracks, LAMBDA track : CreditedTo(track, artistName))
    IN [k \in 1..Len(items) |->
           [id |-> items[k].id,
            title |-> items[k].name,
            uri |-> items[k].uri,
            album_type |-> album.album_type,
            external |-> albumDataEntry.album_group = "appears_on",
            artists |-> items[k].artists,
            duration_ms |-> items[k].duration_ms,
            isrc |-> NoIsrc,
            popularity |-> NoPopularity]]

RECURSIVE FlatMapAlbumTracks(_)
\* Lines 175-190: albums.flatMap(...)
FlatMapAlbumTracks(albums) ==
    IF albums = <<>>
    THEN <<>>
    ELSE AlbumTracks(Head(albums)) \o FlatMapAlbumTracks(Tail(albums))

\* Enrich that attaches the first answer that has any track identifier.
EnrichWithFirst(track, data) ==
    IF data # <<>>
    THEN [track EXCEPT !.isrc = data[1].external_ids.isrc,
                       !.popularity = data[1].popularity]
    ELSE track

\* Lines 207-211: one call of the forEach callback of the enrichment.
Enrich(track, data) ==
    LET found == SelectSeq(data, LAMBDA d : d.id = track.id) IN
    IF found # <<>>
    THEN [track EXCEPT !.isrc = found[1].external_ids.isrc,
                       !.popularity = found[1].popularity]
    ELSE track

\* Lines 170-174: the request of the release details of the batch is issued.
AlbumsRequest ==
    /\ fn = "getAllTrackData"
    /\ pc = "albums"
    /\ albumIndex < Len(albumData)
    /\ LET currentBatch == Slice(albumData, albumIndex, albumIndex + batchSize) IN
           calls' = Append(calls, [kind |-> "getAlbums",
                                   ids |-> [k \in 1..Len(currentBatch) |-> currentBatch[k].id]])
    /\ pc' = "albumsAwait"
    /\ UNCHANGED <<fn, resolverVars, catalog, group, offset, allAlbums, routeVars>>

\* Lines 174-193: the release details arrive; the track records of the batch
\* are built and kept.
AlbumsResponse ==
    /\ fn = "getAllTrackData"
    /\ pc = "albumsAwait"
    /\ LET albumIds == calls[Len(calls)].ids
           albums == [k \in 1..Len(albumIds) |-> AlbumDetails(albumIds[k])]
           albumTracks == FlatMapAlbumTracks(albums)
       IN /\ loaded' = loaded \o albumTracks
          /\ trackIds' = trackIds \o [k \in 1..Len(albumTracks) |-> albumTracks[k].id]
    /\ calls' = Append(calls, [kind |-> "answer"])
    /\ pc' = "albumsDelay"
    /\ UNCHANGED <<fn, resolverVars, catalog, group, offset, allAlbums, handler, service,
                   hasToken, artistName, albumData, albumIndex, trackIndex, trackData,
                   trackUris, chunkIndex, playlist, created, followed, responses>>

\* AlbumsReject that logs the failure and goes on with the next batch.
AlbumsRejectSkipped ==
    /\ fn = "getAllTrackData"
    /\ pc = "albumsAwait"
    /\ calls' = Append(calls, [kind |-> "failure"])
    /\ pc' = "albumsDelay"
    /\ UNCHANGED <<fn, resolverVars, catalog, group, offset, allAlbums, routeVars>>

\* Line 174: the request fails, the await throws and getAllTrackData rejects.
AlbumsReject ==
    /\ fn = "getAllTrackData"
    /\ pc = "albumsAwait"
    /\ calls' = Append(calls, [kind |-> "failure"])
    /\ pc' = "failed"
    /\ UNCHANGED <<fn, resolverVars, catalog, group, offset, allAlbums, routeVars>>

\* AlbumsDelay with no timer: the loop goes on at once.
AlbumsDelaySkipped ==
    /\ fn = "getAllTrackData"
    /\ pc = "albumsDelay"
    /\ albumIndex' = albumIndex + batchSize
    /\ pc' = IF albumIndex + batchSize < Len(albumData) THEN "albums" ELSE "tracks"
    /\ UNCHANGED <<fn, resolverVars, fetchVars, handler, service, hasToken, artistName,
                   albumData, loaded, trackIds, trackIndex, trackData, trackUris,
                   chunkIndex, playlist, created, followed, responses>>

\* Lines 195, 170 and 198-199: the timer of the delay fires, and the loop
\* goes on or ends.
AlbumsDelay ==
    /\ fn = "getAllTrackData"
    /\ pc = "albumsDelay"
    /\ calls' = Append(calls, [kind |-> "delay"])
    /\ albumIndex' = albumIndex + batchSize
    /\ pc' = IF albumIndex + batchSize < Len(albumData) THEN "albums" ELSE "tracks"
    /\ UNCHANGED <<fn, resolverVars, catalog, group, offset, allAlbums, handler, service,
                   hasToken, artistName, albumData, loaded, trackIds, trackIndex,
                   trackData, trackUris, chunkIndex, playlist, created, followed,
                   responses>>

\* Lines 199-201: the request of the track details of the chunk is issued.
TracksRequest ==
    /\ fn = "getAllTrackData"
    /\ pc = "tracks"
    /\ trackIndex < Len(trackIds)
    /\ calls' = Append(calls, [kind |-> "getTracks",
                               ids |-> Slice(trackIds, trackIndex, trackIndex + trackBatchSize)])
    /\ pc' = "tracksAwait"
    /\ UNCHANGED <<fn, resolverVars, catalog, group, offset, allAlbums, routeVars>>

\* Lines 201-202: the track details arrive, of the tracks the service has
\* detail of, and are kept.
TracksResponse ==
    /\ fn = "getAllTrackData"
    /\ pc = "tracksAwait"
    /\ LET chunk == SelectSeq(calls[Len(calls)].ids, HasDetail) IN
           trackData' = trackData \o [k \in 1..Len(chunk) |-> TrackDetails(chunk[k])]
    /\ calls' = Append(calls, [kind |-> "answer"])
    /\ pc' = "tracksDelay"
    /\ UNCHANGED <<fn, resolverVars, catalog, group, offset, allAlbums, handler, service,
                   hasToken, artistName, albumData, albumIndex, loaded, trackIds,
                   trackIndex, trackUris, chunkIndex, playlist, created, followed,
                   responses>>

\* Line 201: the request fails, the await throws and getAllTrackData rejects.
TracksReject ==
    /\ fn = "getAllTrackData"
    /\ pc = "tracksAwait"
    /\ calls' = Append(calls, [kind |-> "failure"])
    /\ pc' = "failed"
    /\ UNCHANGED <<fn, resolverVars, catalog, group, offset, allAlbums, routeVars>>

\* TracksDelay with no timer: the loop goes on at once.
TracksDelaySkipped ==
    /\ fn = "getAllTrackData"
    /\ pc = "tracksDelay"
    /\ trackIndex' = trackIndex + trackBatchSize
    /\ pc' = "tracks"
    /\ UNCHANGED <<fn, resolverVars, fetchVars, handler, service, hasToken, artistName,
                   albumData, albumIndex, loaded, trackIds, trackData, trackUris,
                   chunkIndex, playlist, created, followed, responses>>

\* Lines 203 and 199: the timer of the delay fires.
TracksDelay ==
    /\ fn = "getAllTrackData"
    /\ pc = "tracksDelay"
    /\ calls' = Append(calls, [kind |-> "delay"])
    /\ trackIndex' = trackIndex + trackBatchSize
    /\ pc' = "tracks"
    /\ UNCHANGED <<fn, resolverVars, catalog, group, offset, allAlbums, handler, service,
                   hasToken, artistName, albumData, albumIndex, loaded, trackIds,
                   trackData, trackUris, chunkIndex, playlist, created, followed,
                   responses>>

\* Lines 199 and 206-214: the track loop has ended; every record is enriched
\* and the records are returned to the route (line 67).
LoadReturn ==
    /\ fn = "getAllTrackData"
    /\ pc = "tracks"
    /\ trackIndex >= Len(trackIds)
    /\ tracks' = [k \in 1..Len(loaded) |-> Enrich(loaded[k], trackData)]
    /\ fn' = "route"
    /\ pc' = "loaded"
    /\ UNCHANGED <<i, uniqueTracks, result, pass, first, fetchVars, routeVars>>

\* ------------------------------------------- the route /create-playlist/:id

\* Line 83
chunkSize == 100

RECURSIVE DedupFold(_, _, _, _)
\* Lines 220-270: the forEach of removeDuplicateTracks over the tracks
\* from..to of the list.
DedupFold(m, ts, from, to) ==
    IF from > to THEN m
    ELSE IF from = to THEN DedupCallback(m, ts[from])
    ELSE LET mid == (from + to) \div 2
             half == DedupFold(m, ts, from, mid)
         IN IF Len(half) >= 0 THEN DedupFold(half, ts, mid + 1, to) ELSE half

\* Lines 217-273
removeDuplicateTracks(ts) == MapValues(DedupFold(<<>>, ts, 1, Len(ts)))

RECURSIVE FilterFold(_, _, _, _)
\* Lines 278-349: the forEach of removeAlternateVersions over the tracks
\* from..to of the list.
FilterFold(m, ts, from, to) ==
    IF from > to THEN m
    ELSE IF from = to THEN FilterCallback(m, ts, ts[from])
    ELSE LET mid == (from + to) \div 2
             half == FilterFold(m, ts, from, mid)
         IN IF Len(half) >= 0 THEN FilterFold(half, ts, mid + 1, to) ELSE half

\* Lines 275-352
removeAlternateVersions(ts) == MapValues(FilterFold(<<>>, ts, 1, Len(ts)))

\* Chunk that leaves the last URI of a full chunk out.
ChunkShort(uris, from) == Slice(uris, from, from + chunkSize - 1)

\* Line 87
Chunk(uris, from) == Slice(uris, from, from + chunkSize)

\* Lines 106-109: res.status(400).send(err)
Failure400 == [status |-> 400, body |-> "err"]

\* Line 93
Failure500 == [status |-> 500, body |-> "Error adding tracks to playlist"]

\* Line 104
Success200 == [status |-> 200, body |-> "Playlist created successfully."]

\* Line 51: res.redirect answers 302 Found.
RedirectLogin == [status |-> 302, body |-> "/login"]

\* Lines 50-53: no access token; the caller is sent to the login.
RouteRedirect ==
    /\ fn = "route"
    /\ pc = "start"
    /\ ~hasToken
    /\ responses' = Append(responses, RedirectLogin)
    /\ pc' = "done"
    /\ UNCHANGED <<fn, resolverVars, fetchVars, handler, service, hasToken, loadVars,
                   trackUris, chunkIndex, playlist, created, followed>>

\* Lines 50-55: fetchAllAlbums is called.
RouteFetch ==
    /\ fn = "route"
    /\ pc = "start"
    /\ hasToken
    /\ fn' = "fetchAllAlbums"
    /\ pc' = "request"
    /\ UNCHANGED <<resolverVars, fetchVars, routeVars>>

\* Lines 55-67 and 150-168: fetchAllAlbums has returned. With no release,
\* allAlbums[0].artists throws. Else the releases are sorted in place and
\* getAllTrackData is called.
RouteLoad ==
    /\ handler = "route"
    /\ fn = "fetchAllAlbums"
    /\ pc = "returned"
    /\ IF allAlbums = <<>>
       THEN /\ pc' = "failed"
            /\ UNCHANGED <<fn, allAlbums, artistName, albumData>>
       ELSE /\ artistName' = Artists(allAlbums[1])[1]
            /\ allAlbums' = SortByReleaseDate(allAlbums)
            /\ albumData' = [k \in 1..Len(allAlbums) |->
                                [id |-> allAlbums'[k].id,
                                 album_group |-> allAlbums'[k].album_group]]
            /\ fn' = "getAllTrackData"
            /\ pc' = "albums"
    /\ UNCHANGED <<resolverVars, catalog, group, offset, calls, handler, service, hasToken,
                   albumIndex, loaded, trackIds, trackIndex, trackData, trackUris,
                   chunkIndex, playlist, created, followed, responses>>

\* Lines 68-79: the records are resolved and filtered, and the request to
\* create the playlist is issued.
CreateRequest ==
    /\ fn = "route"
    /\ pc = "loaded"
    /\ result' = removeAlternateVersions(removeDuplicateTracks(tracks))
    /\ calls' = Append(calls, [kind |-> "createPlaylist"])
    /\ pc' = "createAwait"
    /\ UNCHANGED <<fn, tracks, i, uniqueTracks, pass, first, catalog, group, offset,
                   allAlbums, routeVars>>

\* Lines 73-86: the playlist is created; the URIs of the final list are taken.
CreateResponse ==
    /\ fn = "route"
    /\ pc = "createAwait"
    /\ created' = TRUE
    /\ calls' = Append(calls, [kind |-> "answer"])
    /\ trackUris' = [k \in 1..Len(result) |-> result[k].uri]
    /\ chunkIndex' = 0
    /\ pc' = "chunks"
    /\ UNCHANGED <<fn, resolverVars, catalog, group, offset, allAlbums, handler, service,
                   hasToken, loadVars, playlist, followed, responses>>

\* Line 73: the request fails and the await throws.
CreateReject ==
    /\ fn = "route"
    /\ pc = "createAwait"
    /\ calls' = Append(calls, [kind |-> "failure"])
    /\ pc' = "failed"
    /\ UNCHANGED <<fn, resolverVars, catalog, group, offset, allAlbums, routeVars>>

\* Lines 86-90: the request to insert the chunk is issued.
AddRequest ==
    /\ fn = "route"
    /\ pc = "chunks"
    /\ chunkIndex < Len(trackUris)
    /\ calls' = Append(calls, [kind |-> "addTracksToPlaylist",
                               uris |-> Chunk(trackUris, chunkIndex)])
    /\ pc' = "addAwait"
    /\ UNCHANGED <<fn, resolverVars, catalog, group, offset, allAlbums, routeVars>>

\* Lines 90 and 86: the service has inserted the chunk; the loop goes on.
AddResponse ==
    /\ fn = "route"
    /\ pc = "addAwait"
    /\ playlist' = Append(playlist, calls[Len(calls)].uris)
    /\ calls' = Append(calls, [kind |-> "answer"])
    /\ chunkIndex' = chunkIndex + chunkSize
    /\ pc' = "chunks"
    /\ UNCHANGED <<fn, resolverVars, catalog, group, offset, allAlbums, handler, service,
                   hasToken, loadVars, trackUris, created, followed, responses>>

\* AddReject that logs the failure and goes on with the next chunk.
AddRejectSkipped ==
    /\ fn = "route"
    /\ pc = "addAwait"
    /\ calls' = Append(calls, [kind |-> "failure"])
    /\ chunkIndex' = chunkIndex + chunkSize
    /\ pc' = "chunks"
    /\ UNCHANGED <<fn, resolverVars, catalog, group, offset, allAlbums, handler, service,
                   hasToken, loadVars, trackUris, playlist, created, followed, responses>>

\* Lines 90-95: the request fails; the route answers 500 and returns.
AddReject ==
    /\ fn = "route"
    /\ pc = "addAwait"
    /\ calls' = Append(calls, [kind |-> "failure"])
    /\ responses' = Append(responses, Failure500)
    /\ pc' = "done"
    /\ UNCHANGED <<fn, resolverVars, catalog, group, offset, allAlbums, handler, service,
                   hasToken, loadVars, trackUris, chunkIndex, playlist, created, followed>>

\* Lines 86 and 98-99: the chunk loop has ended; the request to follow the
\* artist is issued.
FollowRequest ==
    /\ fn = "route"
    /\ pc = "chunks"
    /\ chunkIndex >= Len(trackUris)
    /\ calls' = Append(calls, [kind |-> "followArtists"])
    /\ pc' = "followAwait"
    /\ UNCHANGED <<fn, resolverVars, catalog, group, offset, allAlbums, routeVars>>

\* Lines 99 and 104-105: the artist is followed; the route answers 200.
FollowResponse ==
    /\ fn = "route"
    /\ pc = "followAwait"
    /\ followed' = TRUE
    /\ calls' = Append(calls, [kind |-> "answer"])
    /\ responses' = Append(responses, Success200)
    /\ pc' = "done"
    /\ UNCHANGED <<fn, resolverVars, catalog, group, offset, allAlbums, handler, service,
                   hasToken, loadVars, trackUris, chunkIndex, playlist, created>>

\* Lines 99-105: the request fails; the error is logged and the route
\* answers 200.
FollowReject ==
    /\ fn = "route"
    /\ pc = "followAwait"
    /\ calls' = Append(calls, [kind |-> "failure"])
    /\ responses' = Append(responses, Success200)
    /\ pc' = "done"
    /\ UNCHANGED <<fn, resolverVars, catalog, group, offset, allAlbums, handler, service,
                   hasToken, loadVars, trackUris, chunkIndex, playlist, created, followed>>

\* Lines 106-109: what was thrown in the try block is caught; the route
\* answers 400.
RouteCatch ==
    /\ handler = "route"
    /\ pc = "failed"
    /\ responses' = Append(responses, Failure400)
    /\ fn' = "route"
    /\ pc' = "done"
    /\ UNCHANGED <<resolverVars, fetchVars, handler, service, hasToken, loadVars,
                   trackUris, chunkIndex, playlist, created, followed>>

\* The route is called, against a catalog service.
InitRoute ==
    /\ fn = "route"
    /\ pc = "start"
    /\ handler = "route"
    /\ hasToken \in BOOLEAN
    /\ service \in [tracksPerAlbum : TracksPerAlbum, gaps : BOOLEAN]
    /\ \E size \in CatalogSizes : \E sizes \in [2..Len(includeGroups) -> SmallSizes] :
          catalog = [g \in 1..Len(includeGroups) |-> IF g = 1 THEN size ELSE sizes[g]]
    /\ group = 1
    /\ offset = 0
    /\ allAlbums = <<>>
    /\ calls = <<>>
    /\ tracks = <<>>
    /\ i = 1
    /\ uniqueTracks = <<>>
    /\ result = <<>>
    /\ pass = 1
    /\ first = <<>>
    /\ artistName = ""
    /\ albumData = <<>>
    /\ albumIndex = 0
    /\ loaded = <<>>
    /\ trackIds = <<>>
    /\ trackIndex = 0
    /\ trackData = <<>>
    /\ trackUris = <<>>
    /\ chunkIndex = 0
    /\ playlist = <<>>
    /\ created = FALSE
    /\ followed = FALSE
    /\ responses = <<>>

\* ---------------------------------------------------------- specifications

Next == DedupStep \/ DedupReturn

Spec == Init /\ [][Next]_vars

NextFilter == FilterStep \/ FilterReturn \/ FilterAgain

SpecFilter == InitFilter /\ [][NextFilter]_vars

NextFetch == FetchRequest \/ FetchResponse \/ FetchReject \/ FetchDelay

\* Every request is answered or fails, every timer fires, and the event loop
\* runs the continuation.
SpecFetch == InitFetch /\ [][NextFetch]_vars /\ WF_vars(NextFetch)

NextRoute ==
    \/ RouteRedirect \/ RouteFetch
    \/ FetchRequest \/ FetchResponse \/ FetchReject \/ FetchDelay
    \/ RouteLoad
    \/ AlbumsRequest \/ AlbumsResponse \/ AlbumsReject \/ AlbumsDelay
    \/ TracksRequest \/ TracksResponse \/ TracksReject \/ TracksDelay
    \/ LoadReturn
    \/ CreateRequest \/ CreateResponse \/ CreateReject
    \/ AddRequest \/ AddResponse \/ AddReject
    \/ FollowRequest \/ FollowResponse \/ FollowReject
    \/ RouteCatch

\* The event loop runs the continuation of a settled await: getAllTrackData
\* returns once its loops have ended, and the catch block runs once the try
\* block has thrown.
SpecRoute ==
    InitRoute /\ [][NextRoute]_vars /\ WF_vars(LoadReturn) /\ WF_vars(RouteCatch)

\* ------------------------------------------- claims on removeDuplicateTracks

\* removeDuplicateTracks has returned.
DedupReturned == fn = "removeDuplicateTracks" /\ pc = "returned"

\* The forEach callback of removeDuplicateTracks is about to run on a track
\* whose key has a selection in the map.
Competing ==
    /\ fn = "removeDuplicateTracks"
    /\ pc = "forEach"
    /\ i <= Len(tracks)
    /\ MapHas(uniqueTracks, tracks[i].isrc)

\* The places of the input records of a key, and of the returned ones.
Group(key) == { k \in 1..Len(tracks) : tracks[k].isrc = key }

Survivors(key) == { k \in 1..Len(result) : result[k].isrc = key }

Keys == { tracks[k].isrc : k \in 1..Len(tracks) }

\* C1: when removeDuplicateTracks has returned, every identifier has at most
\* one record in the output, and every identifier that occurs in the input has
\* exactly one.
C1_OnePerIdentifier ==
    DedupReturned =>
        \A x \in Isrcs :
            /\ Cardinality(Survivors(x)) <= 1
            /\ Group(x) # {} => Cardinality(Survivors(x)) = 1

\* Two input records share an identifier, another identifier occurs too, and
\* the function has returned.
C1_Witness ==
    /\ DedupReturned
    /\ \E x, y \in Isrcs :
          x # y /\ Cardinality(Group(x)) >= 2 /\ Group(y) # {}
    /\ Len(result) = 2

\* C2: when removeDuplicateTracks has returned, every input record that has no
\* identifier is in the output.
C2_NoIdentifierKept ==
    DedupReturned =>
        \A k \in 1..Len(tracks) :
            tracks[k].isrc = NoIsrc =>
                \E r \in 1..Len(result) : result[r] = tracks[k]

NonExternalAlbum(t) == ~t.external /\ t.album_type = "album"

\* C3: an incoming non-external album record always takes the place of the
\* selection of its group, and when removeDuplicateTracks has returned, the
\* surviving record of every group that holds a non-external album record is a
\* non-external album record.
C3_AlbumWins ==
    /\ [][(Competing /\ NonExternalAlbum(tracks[i]))
            => MapGet(uniqueTracks', tracks[i].isrc) = tracks[i]]_vars
    /\ [](DedupReturned =>
            \A key \in Keys :
                (\E k \in Group(key) : NonExternalAlbum(tracks[k]))
                    => \A r \in Survivors(key) : NonExternalAlbum(result[r]))

\* A non-external single followed by a non-external album of the same
\* identifier: the album is what is returned.
C3_Witness ==
    /\ DedupReturned
    /\ Len(tracks) = 2
    /\ tracks[1].isrc = tracks[2].isrc
    /\ tracks[1].isrc \in Isrcs
    /\ ~tracks[1].external /\ tracks[1].album_type = "single"
    /\ NonExternalAlbum(tracks[2])
    /\ result = <<tracks[2]>>

\* C4, as stated: an incoming non-external record always takes the place of an
\* external selection, and when removeDuplicateTracks has returned, the
\* surviving record of every group that holds a non-external record is
\* non-external.
C4_NonExternalWins ==
    /\ [][(Competing /\ ~tracks[i].external
                     /\ MapGet(uniqueTracks, tracks[i].isrc).external)
            => MapGet(uniqueTracks', tracks[i].isrc) = tracks[i]]_vars
    /\ [](DedupReturned =>
            \A key \in Keys :
                (\E k \in Group(key) : ~tracks[k].external)
                    => \A r \in Survivors(key) : ~result[r].external)

NonExternalSingleOrAlbum(t) == ~t.external /\ t.album_type \in {"single", "album"}

\* C4, amended: an incoming non-external single or album always takes the
\* place of an external selection, an incoming non-external compilation takes
\* the place of an external selection only when that selection is a
\* compilation, and when removeDuplicateTracks has returned, the surviving
\* record of every group that holds a non-external single or album is
\* non-external.
C4_NonExternalSingleOrAlbumWins ==
    /\ [][(Competing /\ ~tracks[i].external
                     /\ MapGet(uniqueTracks, tracks[i].isrc).external)
            => LET previousTrack == MapGet(uniqueTracks, tracks[i].isrc) IN
               (MapGet(uniqueTracks', tracks[i].isrc) = tracks[i])
                 <=> \/ tracks[i].album_type \in {"single", "album"}
                     \/ previousTrack.album_type = "compilation"]_vars
    /\ [](DedupReturned =>
            \A key \in Keys :
                (\E k \in Group(key) : NonExternalSingleOrAlbum(tracks[k]))
                    => \A r \in Survivors(key) : ~result[r].external)

\* An external record followed by a non-external single of the same
\* identifier: the single is what is returned.
C4_Witness ==
    /\ DedupReturned
    /\ Len(tracks) = 2
    /\ tracks[1].isrc = tracks[2].isrc
    /\ tracks[1].external
    /\ ~tracks[2].external /\ tracks[2].album_type = "single"
    /\ result = <<tracks[2]>>

NonExternalCompilation(t) == ~t.external /\ t.album_type = "compilation"

\* C5: an incoming non-external compilation takes the place of the selection
\* of its group if and only if that selection is a compilation, and when
\* removeDuplicateTracks has returned, the surviving record of a group of
\* non-external compilations only is the last of them in input order.
C5_LastCompilationWins ==
    /\ [][(Competing /\ NonExternalCompilation(tracks[i]))
            => ((MapGet(uniqueTracks', tracks[i].isrc) = tracks[i])
                 <=> MapGet(uniqueTracks, tracks[i].isrc).album_type = "compilation")]_vars
    /\ [](DedupReturned =>
            \A key \in Keys :
                (\A k \in Group(key) : NonExternalCompilation(tracks[k]))
                    => \A r \in Survivors(key) :
                          /\ result[r] \in { tracks[k] : k \in Group(key) }
                          /\ \A k \in Group(key) : k <= result[r].id)

\* Two non-external compilations of one identifier: the second is returned.
C5_Witness ==
    /\ DedupReturned
    /\ Len(tracks) = 2
    /\ tracks[1].isrc = tracks[2].isrc
    /\ NonExternalCompilation(tracks[1])
    /\ NonExternalCompilation(tracks[2])
    /\ result = <<tracks[2]>>

\* The place in the input where a key first occurs.
FirstAppearance(key) == CHOOSE k \in Group(key) : \A j \in Group(key) : k <= j

\* C6, as stated: when removeDuplicateTracks has returned, the output lists
\* the groups in the order in which they first appeared in the input.
C6_FirstAppearanceOrder ==
    DedupReturned =>
        \A a, b \in 1..Len(result) :
            a < b => FirstAppearance(result[a].isrc) < FirstAppearance(result[b].isrc)

\* C6, amended: when removeDuplicateTracks has returned, the output lists the
\* surviving records in the order in which these records themselves stand in
\* the input: a replacement moves its group to the end of the map.
C6_SurvivorOrder ==
    DedupReturned =>
        /\ \A a \in 1..Len(result) :
              result[a].id \in 1..Len(tracks) /\ tracks[result[a].id] = result[a]
        /\ \A a, b \in 1..Len(result) : a < b => result[a].id < result[b].id

\* A group was first seen before another and its surviving record came after
\* the other's: the output lists it last.
C6_Witness ==
    /\ DedupReturned
    /\ Len(result) = 2
    /\ FirstAppearance(result[2].isrc) < FirstAppearance(result[1].isrc)
    /\ result[1].id < result[2].id

\* ----------------------------------------- claims on removeAlternateVersions

\* removeAlternateVersions has returned.
FilterReturned == fn = "removeAlternateVersions" /\ pc = "returned"

Delimiters == {"-", "("}

\* The place (1-based) of the earliest delimiter of a title that has one.
EarliestDelimiter(title) ==
    CHOOSE k \in 1..Len(title) :
        title[k] \in Delimiters /\ \A j \in 1..(k - 1) : title[j] \notin Delimiters

\* The lower-cased text after the earliest delimiter.
Suffix(title) ==
    ToLowerCase(SubSeq(title, EarliestDelimiter(title) + 1, Len(title)))

\* The trimmed, lower-cased text before the earliest delimiter.
Base(title) ==
    Trim(ToLowerCase(SubSeq(title, 1, EarliestDelimiter(title) - 1)))

ContainsDelimiter(title) == \E k \in 1..Len(title) : title[k] \in Delimiters

ContainsKeyword(s) == \E k \in 1..Len(keywords) : Includes(s, keywords[k])

ContainsException(s) == Includes(s, <<"t","a","y","l","o","r">>)

\* A delimiter, a keyword in the suffix, no exception in it.
AlternateVersion(title) ==
    /\ ContainsDelimiter(title)
    /\ ContainsKeyword(Suffix(title))
    /\ ~ContainsException(Suffix(title))

InResult(t) == \E r \in 1..Len(result) : result[r] = t

\* Some track of the input has the base of this title as its full title,
\* compared case-insensitively.
HasSibling(title) ==
    \E j \in 1..Len(tracks) : ToLowerCase(tracks[j].title) = Base(title)

\* C7: when removeAlternateVersions has returned, an alternate-version track
\* of the input is missing from the output if and only if some track of the
\* input has the base of its title as its full title.
C7_DroppedIffSibling ==
    FilterReturned =>
        \A k \in 1..Len(tracks) :
            AlternateVersion(tracks[k].title)
                => (~InResult(tracks[k]) <=> HasSibling(tracks[k].title))

\* One alternate version was dropped for its sibling, another, of a base with
\* no sibling, was kept.
C7_Witness ==
    /\ FilterReturned
    /\ pass = 1
    /\ \E k \in 1..Len(tracks) :
          /\ AlternateVersion(tracks[k].title)
          /\ HasSibling(tracks[k].title)
          /\ ~InResult(tracks[k])
    /\ \E k \in 1..Len(tracks) :
          /\ AlternateVersion(tracks[k].title)
          /\ ~HasSibling(tracks[k].title)
          /\ InResult(tracks[k])

\* C8: when removeAlternateVersions has returned, every track of the input
\* whose title has no delimiter, or whose suffix has no keyword, or whose
\* suffix contains "taylor", is in the output.
C8_OthersKept ==
    FilterReturned =>
        \A k \in 1..Len(tracks) :
            (\/ ~ContainsDelimiter(tracks[k].title)
             \/ ~ContainsKeyword(Suffix(tracks[k].title))
             \/ ContainsException(Suffix(tracks[k].title)))
                => InResult(tracks[k])

\* A title with a keyword and the exception in its suffix was kept beside its
\* sibling, while an alternate version of the same base was dropped.
C8_Witness ==
    /\ FilterReturned
    /\ pass = 1
    /\ \E k \in 1..Len(tracks) :
          /\ ContainsDelimiter(tracks[k].title)
          /\ ContainsKeyword(Suffix(tracks[k].title))
          /\ ContainsException(Suffix(tracks[k].title))
          /\ HasSibling(tracks[k].title)
          /\ InResult(tracks[k])
    /\ \E k \in 1..Len(tracks) : ~InResult(tracks[k])

\* C9: when removeAlternateVersions has returned from the call on its own
\* output, it has returned that output again: same records, same order.
C9_Idempotent ==
    (FilterReturned /\ pass = 2) => result = first

\* The second call has returned, on a list the first call had shortened and
\* that still holds two records, one of them an alternate version.
C9_Witness ==
    /\ FilterReturned
    /\ pass = 2
    /\ Len(result) >= 2
    /\ \E r \in 1..Len(first) : first[r].id # r
    /\ \E r \in 1..Len(result) : AlternateVersion(result[r].title)

\* -------------------------------------------------- claims on fetchAllAlbums

\* fetchAllAlbums has returned its list, or has rejected.
FetchEnded == fn = "fetchAllAlbums" /\ pc \in {"returned", "failed"}

\* No page request of a category follows an empty page of that category.
NoRequestAfterEmptyPage ==
    \A a, b \in 1..Len(calls) :
        (/\ a < b
         /\ calls[a].kind = "page"
         /\ calls[a].items = 0
         /\ calls[b].kind = "request")
            => calls[b].include_groups # calls[a].include_groups

\* C10: no page request is issued for a category after a page with zero items
\* was received for it, and the fetch ends.
C10_StopsAtEmptyPage == [](NoRequestAfterEmptyPage) /\ <>FetchEnded

\* The fetch has returned after an empty page of every category, one of them
\* received after a full page and a page with one release.
C10_Witness ==
    /\ fn = "fetchAllAlbums"
    /\ pc = "returned"
    /\ \A g \in 1..Len(includeGroups) :
          \E a \in 1..Len(calls) :
              /\ calls[a].kind = "page"
              /\ calls[a].include_groups = includeGroups[g]
              /\ calls[a].items = 0
    /\ \E a \in 1..Len(calls) : calls[a].kind = "page" /\ calls[a].items = limit
    /\ \E a \in 1..Len(calls) : calls[a].kind = "page" /\ calls[a].items = 1

\* The bound on the page requests never stops a run.
RequestBoundUnreached ==
    (fn = "fetchAllAlbums" /\ pc = "request")
        => Len(SelectSeq(calls, LAMBDA c : c.kind = "request")) < MaxRequests

\* C11: when fetchAllAlbums has returned, its list is the releases of the
\* catalog, category after category in the order of the fetchAlbums calls and
\* in catalog order inside a category, each release once, and it is as long as
\* the pages received together.
ReleasesOf(g) ==
    [k \in 1..catalog[g] |-> [album_group |-> includeGroups[g], id |-> <<includeGroups[g], k>>]]

PagesReceived == SelectSeq(calls, LAMBDA c : c.kind = "page")

RECURSIVE SumItems(_)
SumItems(pages) ==
    IF pages = <<>> THEN 0 ELSE pages[1].items + SumItems(Tail(pages))

C11_AllReleasesInOrder ==
    (fn = "fetchAllAlbums" /\ pc = "returned") =>
        /\ allAlbums = ReleasesOf(1) \o ReleasesOf(2) \o ReleasesOf(3) \o ReleasesOf(4)
        /\ Len(allAlbums) = SumItems(PagesReceived)

\* The fetch has returned the releases of two categories, one of them longer
\* than a page.
C11_Witness ==
    /\ fn = "fetchAllAlbums"
    /\ pc = "returned"
    /\ catalog[1] > limit
    /\ catalog[4] > 0
    /\ Len(allAlbums) >= catalog[1] + catalog[4]

\* ------------------------------------- more claims on removeDuplicateTracks

\* C14: an incoming external record takes the place of the selection of its
\* group exactly when the selection is external and the incoming record is an
\* album, or a single while the selection is no album; and a group whose
\* selection is non-external keeps a non-external selection.
C14_ExternalNeverOverNonExternal ==
    /\ [][(Competing /\ tracks[i].external)
            => LET previousTrack == MapGet(uniqueTracks, tracks[i].isrc) IN
               (MapGet(uniqueTracks', tracks[i].isrc) = tracks[i])
                 <=> /\ previousTrack.external
                     /\ \/ tracks[i].album_type = "album"
                        \/ /\ tracks[i].album_type = "single"
                           /\ previousTrack.album_type # "album"]_vars
    /\ [][fn = "removeDuplicateTracks" =>
            \A key \in Isrcs \cup {NoIsrc} :
                (MapHas(uniqueTracks, key) /\ ~MapGet(uniqueTracks, key).external)
                    => (MapHas(uniqueTracks', key) /\ ~MapGet(uniqueTracks', key).external)]_vars

\* Three external records of one identifier: the album took the place of the
\* compilation, the single after it did not take the album's.
C14_Witness ==
    /\ DedupReturned
    /\ Len(tracks) = 3
    /\ \A k \in 1..3 : tracks[k].external /\ tracks[k].isrc = tracks[1].isrc
    /\ tracks[1].album_type = "compilation"
    /\ tracks[2].album_type = "album"
    /\ tracks[3].album_type = "single"
    /\ result = <<tracks[2]>>

\* C15: an incoming non-external single takes the place of a selection that
\* is external or is a single or a compilation, and does not take the place
\* of a non-external album.
C15_SingleLosesToAlbumOnly ==
    [][(Competing /\ ~tracks[i].external /\ tracks[i].album_type = "single")
         => LET previousTrack == MapGet(uniqueTracks, tracks[i].isrc) IN
            /\ (previousTrack.external
                  \/ previousTrack.album_type \in {"single", "compilation"})
                 => MapGet(uniqueTracks', tracks[i].isrc) = tracks[i]
            /\ NonExternalAlbum(previousTrack)
                 => MapGet(uniqueTracks', tracks[i].isrc) = previousTrack]_vars

\* An external album followed by a non-external single of its identifier: the
\* single is what is returned.
C15_Witness ==
    /\ DedupReturned
    /\ Len(tracks) = 2
    /\ tracks[1].isrc = tracks[2].isrc
    /\ tracks[1].external /\ tracks[1].album_type = "album"
    /\ ~tracks[2].external /\ tracks[2].album_type = "single"
    /\ result = <<tracks[2]>>

\* ------------------------------------------- more claims on fetchAllAlbums

PageRequests == SelectSeq(calls, LAMBDA c : c.kind = "request")

\* The place of a category in the order of the fetchAlbums calls.
GroupIndex(includeGroup) ==
    CHOOSE g \in 1..Len(includeGroups) : includeGroups[g] = includeGroup

\* C16: between two page requests a page was received; the requests go
\* category by category in the order album, single, compilation, appears_on;
\* and the k-th request of a category carries the offset (k - 1) * limit.
C16_SequentialPaging ==
    /\ \A a, b \in 1..Len(calls) :
          (a < b /\ calls[a].kind = "request" /\ calls[b].kind = "request")
              => \E c \in (a + 1)..(b - 1) : calls[c].kind = "page"
    /\ \A a, b \in 1..Len(PageRequests) :
          a < b => GroupIndex(PageRequests[a].include_groups)
                      <= GroupIndex(PageRequests[b].include_groups)
    /\ \A b \in 1..Len(PageRequests) :
          PageRequests[b].offset =
              limit * Cardinality({ a \in 1..(b - 1) :
                  PageRequests[a].include_groups = PageRequests[b].include_groups })

\* A category took three requests, the last at offset 2 * limit, and the
\* category after it began at offset 0.
C16_Witness ==
    /\ fn = "fetchAllAlbums"
    /\ pc = "returned"
    /\ \E a, b \in 1..Len(PageRequests) :
          /\ a < b
          /\ PageRequests[a].offset = 2 * limit
          /\ PageRequests[b].offset = 0

\* ----------------------------------------------------- claims on the route

\* The kinds of the requests to the catalog service: a release page, a
\* release-detail batch, a track-detail batch.
CatalogRequests == {"request", "getAlbums", "getTracks"}

\* The kinds of all the requests of a run.
Requests == CatalogRequests \cup {"createPlaylist", "addTracksToPlaylist", "followArtists"}

\* The a-th entry of the log is a request of one of the kinds, and it failed.
FailedAt(a, kinds) ==
    /\ 1 <= a
    /\ a < Len(calls)
    /\ calls[a].kind \in kinds
    /\ calls[a + 1].kind = "failure"

CatalogRequestFailed == \E a \in 1..Len(calls) : FailedAt(a, CatalogRequests)

FailureAnswered == fn = "route" /\ pc = "done" /\ responses = <<Failure400>>

\* Once a catalog request has failed, nothing follows it in the log, no
\* playlist exists, nothing is inserted, and nothing but the 400 is sent.
AbortedOnCatalogFailure ==
    \A a \in 1..Len(calls) :
        FailedAt(a, CatalogRequests) =>
            /\ a + 1 = Len(calls)
            /\ ~created
            /\ playlist = <<>>
            /\ ~followed
            /\ pc \in {"failed", "done"}
            /\ responses \in {<<>>, <<Failure400>>}
            /\ pc = "done" => responses = <<Failure400>>

\* C12: when a catalog request of a run fails (a release page, a
\* release-detail batch or a track-detail batch), no request is issued after
\* it (no later catalog request, no retry), no playlist is created, no track
\* is inserted, and the caller receives the failure response 400 and no other
\* response.
C12_CatalogFailureAborts ==
    [](AbortedOnCatalogFailure) /\ (CatalogRequestFailed ~> FailureAnswered)

\* A track-detail batch failed after a release page, a release-detail batch
\* and another track-detail batch were answered, and the route has answered.
C12_Witness ==
    /\ pc = "done"
    /\ FailedAt(Len(calls) - 1, {"getTracks"})
    /\ Len(SelectSeq(calls, LAMBDA c : c.kind = "getTracks")) >= 2
    /\ responses = <<Failure400>>

AddCalls == SelectSeq(calls, LAMBDA c : c.kind = "addTracksToPlaylist")

RECURSIVE ChunksInOrder(_)
\* The URIs the insertion calls carried, in call order.
ChunksInOrder(adds) ==
    IF adds = <<>> THEN <<>> ELSE Head(adds).uris \o ChunksInOrder(Tail(adds))

\* The chunk loop has ended and no insertion call failed.
InsertionEnded ==
    /\ \E a \in 1..Len(calls) : calls[a].kind = "followArtists"
    /\ ~\E a \in 1..Len(calls) : FailedAt(a, {"addTracksToPlaylist"})

\* C13: when no insertion call fails, the final list of n track URIs is
\* inserted with exactly ceil(n/100) insertion calls, each carrying at most
\* 100 URIs, all but the last exactly 100, and the chunks in call order make
\* up the final track list, which is what the playlist then holds.
C13_ChunkedInsertion ==
    InsertionEnded =>
        LET n == Len(result)
            adds == AddCalls
        IN /\ (Len(adds) - 1) * 100 < n
           /\ n <= Len(adds) * 100
           /\ \A k \in 1..Len(adds) : Len(adds[k].uris) <= 100
           /\ \A k \in 1..(Len(adds) - 1) : Len(adds[k].uris) = 100
           /\ ChunksInOrder(adds) = [k \in 1..n |-> result[k].uri]
           /\ playlist = [k \in 1..Len(adds) |-> adds[k].uris]

\* 250 URIs were inserted with calls of 100, 100 and 50.
C13_Witness ==
    /\ InsertionEnded
    /\ Len(result) = 250
    /\ Len(AddCalls) = 3
    /\ Len(AddCalls[1].uris) = 100
    /\ Len(AddCalls[2].uris) = 100
    /\ Len(AddCalls[3].uris) = 50

\* The a-th entry of the log is a page request answered with a page that
\* holds releases, or an answered release-detail or track-detail batch
\* request.
Throttled(a) ==
    /\ a < Len(calls)
    /\ \/ calls[a].kind = "request" /\ calls[a + 1].kind = "page" /\ calls[a + 1].items > 0
       \/ calls[a].kind \in {"getAlbums", "getTracks"} /\ calls[a + 1].kind = "answer"

DelayBetween(a, b) == \E d \in (a + 1)..(b - 1) : calls[d].kind = "delay"

\* C17: after every non-empty release page request, every release-detail
\* batch request and every track-detail batch request, the delay elapses
\* before the next request of the run is issued.
C17_DelayAfterRequest ==
    \A a, b \in 1..Len(calls) :
        (a < b /\ Throttled(a) /\ calls[b].kind \in Requests) => DelayBetween(a, b)

\* A run with two release-detail batches and two track-detail batches has
\* gone on to create the playlist.
C17_Witness ==
    /\ Len(SelectSeq(calls, LAMBDA c : c.kind = "getAlbums")) >= 2
    /\ Len(SelectSeq(calls, LAMBDA c : c.kind = "getTracks")) >= 2
    /\ \E a \in 1..Len(calls) : calls[a].kind = "request" /\ Throttled(a)
    /\ \E a \in 1..Len(calls) : calls[a].kind = "createPlaylist"

\* The track-detail answers that have the identifier.
Matches(id) == { d \in 1..Len(trackData) : trackData[d].id = id }

\* Every record is the record built from the release, with the identifier
\* and the popularity of an answer of its track identifier, or as it was
\* built when there is no such answer.
EnrichedByIdentifier ==
    /\ Len(tracks) = Len(loaded)
    /\ \A k \in 1..Len(tracks) :
          IF Matches(loaded[k].id) = {}
          THEN tracks[k] = loaded[k]
          ELSE \E d \in Matches(loaded[k].id) :
                  tracks[k] = [loaded[k] EXCEPT !.isrc = trackData[d].external_ids.isrc,
                                                !.popularity = trackData[d].popularity]

TrackLoopEnded == fn = "getAllTrackData" /\ pc = "tracks" /\ trackIndex >= Len(trackIds)

\* getAllTrackData has returned the records to the route (line 67).
Returned == fn = "route" /\ pc = "loaded"

\* C18: enrichment attaches to each track record the identifier and the
\* popularity of the track-detail answer that has the same track identifier;
\* a record with no such answer is left without identifier and popularity,
\* every other record is still enriched, and getAllTrackData returns the
\* records to the route instead of throwing.
C18_EnrichmentByIdentifier ==
    [](Returned => EnrichedByIdentifier) /\ (TrackLoopEnded ~> Returned)

\* Records were returned of which one has no answer and another, behind it,
\* has one.
C18_Witness ==
    /\ Returned
    /\ \E j, k \in 1..Len(tracks) :
          /\ j < k
          /\ Matches(loaded[j].id) = {}
          /\ tracks[j].isrc = NoIsrc
          /\ Matches(loaded[k].id) # {}
          /\ tracks[k].isrc # NoIsrc

\* C19: when the insertion call of chunk k fails, the chunks 1..k-1 stay in
\* the playlist, no call follows the failed one (no rollback, no later chunk,
\* no artist-follow), and the caller receives the failure response 500 and
\* nothing else.
C19_InsertionFailureIsFatal ==
    \A a \in 1..Len(calls) :
        FailedAt(a, {"addTracksToPlaylist"}) =>
            /\ a + 1 = Len(calls)
            /\ Len(playlist) = Len(AddCalls) - 1
            /\ \A k \in 1..Len(playlist) : playlist[k] = AddCalls[k].uris
            /\ ~followed
            /\ pc = "done"
            /\ responses = <<Failure500>>

\* The insertion of the third chunk failed after two chunks were inserted.
C19_Witness ==
    /\ FailedAt(Len(calls) - 1, {"addTracksToPlaylist"})
    /\ Len(AddCalls) = 3
    /\ Len(playlist) = 2
    /\ responses = <<Failure500>>

\* The a-th and the b-th entry of the log are consecutive requests to the
\* catalog service.
ConsecutiveCatalogRequests(a, b) ==
    /\ a < b
    /\ calls[a].kind \in CatalogRequests
    /\ calls[b].kind \in CatalogRequests
    /\ \A r \in (a + 1)..(b - 1) : calls[r].kind \notin CatalogRequests

\* C20 as stated: every two consecutive requests to the catalog service are
\* separated by the delay.
C20_AlwaysThrottled ==
    \A a, b \in 1..Len(calls) : ConsecutiveCatalogRequests(a, b) => DelayBetween(a, b)

\* C20: two consecutive requests to the catalog service are separated by the
\* delay exactly when the earlier one is not a page request that was
\* answered with an empty page: no delay elapses from the empty page of a
\* category to the first page request of the next category, nor from the
\* last page request to the first release-detail batch request.
C20_ThrottledUnlessEmptyPage ==
    \A a, b \in 1..Len(calls) :
        ConsecutiveCatalogRequests(a, b) =>
            (DelayBetween(a, b) <=> ~(calls[a].kind = "request" /\ calls[a + 1].items = 0))

\* The run went from the empty page of a category to the next category, from
\* the last page request to the first release-detail batch request, and on
\* to a track-detail batch request.
C20_Witness ==
    /\ \E a \in 1..(Len(calls) - 2) : ConsecutiveCatalogRequests(a, a + 2)
                                       /\ calls[a + 2].kind = "request"
    /\ \E a \in 1..(Len(calls) - 2) : ConsecutiveCatalogRequests(a, a + 2)
                                       /\ calls[a + 2].kind = "getAlbums"
    /\ \E a, b \in 1..Len(calls) : ConsecutiveCatalogRequests(a, b)
                                    /\ calls[b].kind = "getTracks"

====
